---- MODULE Spec2Model ----
(***************************************************************************)
(* Interview Trainer: the JobTargeting page, the job-analysis endpoint     *)
(* with its Postgres cache, the jobs table and the SkillTraining page.     *)
(*                                                                         *)
(* The frontend and the SQL schema are modelled from their sources.  The   *)
(* Python backend (services/job_analysis.py, routes) is not part of the    *)
(* sources at hand; its steps are modelled from its README and from the    *)
(* specification, and are marked as such where they are defined.           *)
(***************************************************************************)
EXTENDS Integers, FiniteSets, Sequences, TLC

(***************************************************************************)
(* Bounds of the model                                                     *)
(***************************************************************************)
\* POST /job-analysis/analyze exchanges over one run
MaxPosts == 2
\* last hour of the wall clock
MaxClock == 48
\* hours the clock advances per tick
ClockStepHours == 24
\* rows the jobs table comes to hold over one run
MaxJobs == 2
\* questions, and exercises, a skill comes with
MaxItems == 2

(***************************************************************************)
(* Program constants                                                       *)
(***************************************************************************)
\* validateJobAnalysisRequest: job_description.length < 50 is an error
MinDescriptionLength == 50
\* README, Cache Configuration: "Cache Expiry: 24 hours by default"
CacheExpiryHours == 24
\* README, Cache Configuration: "Retry Logic: 3 attempts with exponential backoff"
MaxRetryAttempts == 3
\* handleAnalyzeJob: status: response.success ? 200 : 500
StatusOk == 200
StatusFailed == 500
\* FastAPI's answer to a body that fails request validation
StatusUnprocessable == 422

(***************************************************************************)
(* Job descriptions.  A description is known by a name; Length and Trim say   *)
(* what the text is.                                                       *)
(***************************************************************************)
Descriptions == {"empty", "spaces", "short", "fifty", "jobA"}

\* String.prototype.length of each text
Length(d) ==
    CASE d = "empty"  -> 0
      [] d = "spaces" -> 60
      [] d = "short"  -> 49
      [] d = "fifty"  -> 50
      [] d = "jobA"   -> 51

\* String.prototype.trim: the whitespace-only texts trim to the empty text
Trim(d) == IF d \in {"empty", "spaces"} THEN "empty" ELSE d

\* JavaScript truthiness of a string: the empty string is falsy
Truthy(d) == Length(d) > 0

(***************************************************************************)
(* State                                                                   *)
(***************************************************************************)
VARIABLES
    jobDescription,   \* JobTargeting: the text in the description input
    analysisState,    \* JobTargeting: isLoading, error, result, analysisId
    clicks,           \* the buttons whose click sent a request, in order
    reqs,             \* the POST /job-analysis/analyze exchanges
    cache,            \* rows of job_analysis_cache
    history,          \* rows of job_analysis_history
    now,              \* CURRENT_TIMESTAMP / Date.now(), in hours
    jobs,             \* rows of the jobs table
    jobsAtCreation,   \* each job as it was inserted
    fetchedJobs,      \* what JobsService last returned to the frontend
    skillCards,       \* rows of skill_cards
    training,         \* SkillTraining page state
    submissions,      \* answers and exercises submitted per skill on the
                      \* SkillTraining page that is open
    landing           \* App with the LandingPage wizard: the path, the
                      \* wizard's step and API key, preferences, isConfigured

analysisVars == <<jobDescription, analysisState, clicks, reqs, cache, history, now>>
jobsVars == <<jobs, jobsAtCreation, fetchedJobs>>
trainingVars == <<skillCards, training, submissions>>
landingVars == <<landing>>
vars == <<jobDescription, analysisState, clicks, reqs, cache, history, now,
          jobs, jobsAtCreation, fetchedJobs, skillCards, training, submissions,
          landing>>

(***************************************************************************)
(* jobAnalysisService.ts                                                   *)
(***************************************************************************)
\* JobAnalysisError | null; status 0 stands for an absent status
NoStatus == 0
NullError == [message |-> "null", status |-> NoStatus, code |-> "null"]

\* JobAnalysisResult | null
NullResult == [job |-> "null", fields |-> {}]

\* The result fields of the README's response example
ReadmeResultFields ==
    {"extracted_skills", "requirements", "training_recommendations"}

\* JobAnalysisResult: the fields every result carries
JobAnalysisResultFields ==
    {"industry", "key_requirements", "skill_recommendations", "experience_level",
     "difficulty_assessment", "role_summary", "analysis_metadata"}

\* Variant: a validation without the minimum length
validateRequiredOnly(d) ==
    IF ~Truthy(Trim(d))
        THEN <<[message |-> "Job description is required", status |-> NoStatus,
                code |-> "MISSING_JOB_DESCRIPTION"]>>
        ELSE <<>>

\* validateJobAnalysisRequest({job_description: d}): the errors, in order
validateJobAnalysisRequest(d) ==
    (IF ~Truthy(Trim(d))
        THEN <<[message |-> "Job description is required", status |-> NoStatus,
                code |-> "MISSING_JOB_DESCRIPTION"]>>
        ELSE <<>>)
    \o
    (IF Truthy(d) /\ Length(d) < MinDescriptionLength
        THEN <<[message |-> "Job description should be at least 50 characters long",
                status |-> NoStatus, code |-> "JOB_DESCRIPTION_TOO_SHORT"]>>
        ELSE <<>>)

\* What apiService.post settles with.  kind "resolved": a 2xx answer, whose
\* body is a JobAnalysisResponse; "http": a 4xx/5xx answer; "network": no
\* answer at all.
NoResponse ==
    [kind |-> "none", status |-> NoStatus, success |-> FALSE, detail |-> "",
     result |-> NullResult, cache_hit |-> FALSE, analysis_id |-> 0]

\* An answer that carries a result, and one that carries an error
CarriesResult(resp) ==
    resp.kind = "resolved" /\ resp.success /\ resp.result # NullResult

CarriesError(resp) ==
    /\ resp.result = NullResult
    /\ resp.detail # ""
    /\ resp.kind = "http" \/ (resp.kind = "resolved" /\ ~resp.success)

\* handleError(error, 'Failed to analyze job description')
handleError(resp) ==
    IF resp.kind = "http"
        THEN [message |-> IF resp.detail # "" THEN resp.detail
                          ELSE "Failed to analyze job description",
              status |-> resp.status, code |-> "null"]
        ELSE [message |-> "Network Error", status |-> NoStatus, code |-> "null"]

(***************************************************************************)
(* JobTargeting.tsx                                                        *)
(***************************************************************************)
InitialAnalysisState ==
    [isLoading |-> FALSE, error |-> NullError, result |-> NullResult, analysisId |-> 0]

\* const hasCompletedAnalysis = analysisState.result && !analysisState.isLoading
hasCompletedAnalysis ==
    analysisState.result # NullResult /\ ~analysisState.isLoading

\* Variant: a button that is not disabled while the analysis is loading
AnalyzeButtonEnabledWhileLoading ==
    ~hasCompletedAnalysis /\ Truthy(Trim(jobDescription))

\* <AnalyzeButton disabled={!jobDescription.trim() || isLoading} isLoading=...>
\* rendered when there is no completed analysis; the button itself is
\* disabled={disabled || isLoading}
AnalyzeButtonEnabled ==
    /\ ~hasCompletedAnalysis
    /\ ~((~Truthy(Trim(jobDescription)) \/ analysisState.isLoading)
         \/ analysisState.isLoading)

\* <JobDescriptionInput disabled={analysisState.isLoading}>
DescriptionInputEnabled ==
    ~hasCompletedAnalysis /\ ~analysisState.isLoading

\* JobAnalysisResults is mounted when result || error; it shows the error
\* panel (with Try Again and Clear) when !isLoading && error && !result
ErrorPanelShown ==
    /\ (analysisState.result # NullResult \/ analysisState.error # NullError)
    /\ ~analysisState.isLoading
    /\ analysisState.error # NullError
    /\ analysisState.result = NullResult

\* The early returns of handleAnalyzeJob: the error it sets, or NullError
\* when the description goes on to be sent
AnalyzeRejection(d) ==
    IF ~Truthy(Trim(d))
        THEN [message |-> "Please enter a job description to analyze",
              status |-> NoStatus, code |-> "EMPTY_JOB_DESCRIPTION"]
    ELSE IF Len(validateJobAnalysisRequest(d)) > 0
        THEN validateJobAnalysisRequest(d)[1]
    ELSE NullError

\* The exchanges not yet used
FreeRequests == {r \in DOMAIN reqs : reqs[r].pc = "unused"}

\* A request as it leaves the client
NewRequest(from, d) ==
    [pc |-> "sent", from |-> from, desc |-> d, hash |-> "none", attempts |-> 0,
     delay |-> 0, order |-> <<>>, resp |-> NoResponse]

UnusedRequest ==
    [pc |-> "unused", from |-> "none", desc |-> "empty", hash |-> "none",
     attempts |-> 0, delay |-> 0, order |-> <<>>, resp |-> NoResponse]

\* The lowest exchange not yet used
NextFree == CHOOSE r \in FreeRequests : \A q \in FreeRequests : r <= q

\* Variant: the result of any answered call is taken, success or not
SettledStateIgnoresSuccess(resp) ==
    IF resp.kind = "resolved"
        THEN [isLoading |-> FALSE, error |-> NullError,
              result |-> resp.result, analysisId |-> resp.analysis_id]
        ELSE [isLoading |-> FALSE, error |-> handleError(resp),
              result |-> NullResult, analysisId |-> 0]

\* A catch block that swallows the failure: loading ends and no error is set
SettledStateSwallowed(resp) ==
    IF resp.kind = "resolved" /\ resp.success /\ resp.result # NullResult
        THEN [isLoading |-> FALSE, error |-> NullError,
              result |-> resp.result, analysisId |-> resp.analysis_id]
        ELSE [isLoading |-> FALSE, error |-> NullError,
              result |-> NullResult, analysisId |-> 0]

\* The state handleAnalyzeJob sets once the awaited analyzeJob call settles
\* with resp: the resolved branch (success && result, or not) or the catch
SettledState(resp) ==
    IF resp.kind = "resolved"
        THEN IF resp.success /\ resp.result # NullResult
                THEN [isLoading |-> FALSE, error |-> NullError,
                      result |-> resp.result, analysisId |-> resp.analysis_id]
                ELSE [isLoading |-> FALSE,
                      error |-> [message |-> IF resp.detail # "" THEN resp.detail
                                             ELSE "Analysis failed",
                                 status |-> IF resp.success THEN StatusOk
                                            ELSE StatusFailed,
                                 code |-> "null"],
                      result |-> NullResult, analysisId |-> resp.analysis_id]
        ELSE [isLoading |-> FALSE, error |-> handleError(resp),
              result |-> NullResult, analysisId |-> 0]

\* A handler that sends a failed request again by itself
AfterSettleResend(r) ==
    IF CarriesResult(reqs[r].resp)
        THEN [reqs EXCEPT ![r] = [UnusedRequest EXCEPT !.pc = "settled",
                                                       !.from = reqs[r].from]]
        ELSE [reqs EXCEPT ![r] = NewRequest(reqs[r].from, reqs[r].desc)]

\* What handleAnalyzeJob does to the exchanges when the awaited call has
\* settled: nothing is sent again, the exchange is over
AfterSettle(r) ==
    [reqs EXCEPT ![r] = [UnusedRequest EXCEPT !.pc = "settled", !.from = reqs[r].from]]

\* Variant: loading starts on top of the previous state
LoadingStateKeepingPrevious == [analysisState EXCEPT !.isLoading = TRUE]

\* "Clear previous state and start loading"
LoadingState ==
    [isLoading |-> TRUE, error |-> NullError, result |-> NullResult, analysisId |-> 0]

\* handleAnalyzeJob up to its await, run by a click on `button`
handleAnalyzeJob(button) ==
    IF AnalyzeRejection(jobDescription) # NullError
        THEN /\ analysisState' =
                    [analysisState EXCEPT !.error = AnalyzeRejection(jobDescription)]
             /\ UNCHANGED <<reqs, clicks>>
        ELSE /\ FreeRequests # {}
             /\ analysisState' = LoadingState
             /\ reqs' = [reqs EXCEPT ![NextFree] = NewRequest("page", jobDescription)]
             /\ clicks' = Append(clicks, button)

\* typing into the description input
SetJobDescription(d) ==
    /\ DescriptionInputEnabled
    /\ d # jobDescription
    /\ jobDescription' = d
    /\ UNCHANGED <<analysisState, clicks, reqs, cache, history, now>>
    /\ UNCHANGED <<jobsVars, trainingVars, landingVars>>

\* a click on the Analyze Job button
ClickAnalyze ==
    /\ AnalyzeButtonEnabled
    /\ handleAnalyzeJob("Analyze Job")
    /\ UNCHANGED <<jobDescription, cache, history, now>>
    /\ UNCHANGED <<jobsVars, trainingVars, landingVars>>

\* handleRetryAnalysis: a click on Try Again in the error panel
ClickTryAgain ==
    /\ ErrorPanelShown
    /\ handleAnalyzeJob("Try Again")
    /\ UNCHANGED <<jobDescription, cache, history, now>>
    /\ UNCHANGED <<jobsVars, trainingVars, landingVars>>

\* handleClearResults: Clear, or the close button, of the error panel
ClickClear ==
    /\ ErrorPanelShown
    /\ analysisState' = InitialAnalysisState
    /\ UNCHANGED <<jobDescription, clicks, reqs, cache, history, now>>
    /\ UNCHANGED <<jobsVars, trainingVars, landingVars>>

\* handleNewAnalysis: the New Analysis button next to a completed analysis
ClickNewAnalysis ==
    /\ hasCompletedAnalysis
    /\ analysisState' = InitialAnalysisState
    /\ jobDescription' = "empty"
    /\ UNCHANGED <<clicks, reqs, cache, history, now>>
    /\ UNCHANGED <<jobsVars, trainingVars, landingVars>>

\* the awaited analyzeJob call of the page settles
Settle(r) ==
    /\ reqs[r].pc = "responded"
    /\ reqs[r].from = "page"
    /\ analysisState' = SettledState(reqs[r].resp)
    /\ reqs' = AfterSettle(r)
    /\ UNCHANGED <<jobDescription, clicks, cache, history, now>>
    /\ UNCHANGED <<jobsVars, trainingVars, landingVars>>

(***************************************************************************)
(* job_analysis_cache (SQL) and the analyze endpoint.                      *)
(* The table, its constraint and cleanup_expired_cache are modelled from   *)
(* the schema; the endpoint's steps from the README and the specification. *)
(***************************************************************************)
\* The cache key of a description: a digest that fits VARCHAR(32)
JobDescriptionHash(d) ==
    CASE d = "jobA"  -> "3fa1"
      [] d = "fifty" -> "b25e"
      [] OTHER       -> "d41d"

\* job_description_hash declared without UNIQUE
NoUniqueViolation(rows, h) == FALSE

\* job_description_hash VARCHAR(32) UNIQUE NOT NULL: an INSERT of hash h is
\* refused when a row with that hash is in the table
UniqueViolation(rows, h) == \E row \in rows : row.job_description_hash = h

\* INSERT INTO job_analysis_cache: the table afterwards.  id SERIAL PRIMARY
\* KEY gives every row an id of its own; the model takes the number of the
\* exchange that writes the row
InsertCacheRow(rows, id, h, result, expires) ==
    IF UniqueViolation(rows, h)
        THEN rows
        ELSE rows \cup {[id |-> id, job_description_hash |-> h,
                         analysis_result |-> result, expires_at |-> expires,
                         hit_count |-> 0]}

\* A row of job_analysis_history: analysis_id, status, cache_hit,
\* error_message
HistoryRow(id, status, hit, msg) ==
    [analysis_id |-> id, status |-> status, cache_hit |-> hit,
     error_message |-> msg]

\* A record whose cache_hit is left at the column's DEFAULT FALSE
AnalysisRecordDefaultHit(id, status, hit, msg) ==
    HistoryRow(id, status, FALSE, msg)

\* The history row the endpoint writes for the analysis it has just ended
AnalysisRecord(id, status, hit, msg) == HistoryRow(id, status, hit, msg)

\* INSERT INTO job_analysis_history, with analysis_id UUID UNIQUE NOT NULL
InsertHistoryRow(rows, row) ==
    IF \E old \in rows : old.analysis_id = row.analysis_id
        THEN rows
        ELSE rows \cup {row}

\* A hit that is served without being counted
CountHitNot(row) == row

\* Hit tracking: the row after one more hit was served from it
CountHit(row) == [row EXCEPT !.hit_count = @ + 1]

\* cleanup_expired_cache(): DELETE ... WHERE expires_at < CURRENT_TIMESTAMP
ExpiredRows(rows, t) == {row \in rows : row.expires_at < t}

\* A lookup that still serves a row in the hour it expires
CacheLookupInclusive(rows, h, t) ==
    {row \in rows : row.job_description_hash = h /\ row.expires_at >= t}

\* The cache lookup: the rows of hash h that have not expired at time t
CacheLookup(rows, h, t) ==
    {row \in rows : row.job_description_hash = h /\ row.expires_at > t}

\* expires_at of a row written at time t
ExpiresAt(t) == t + CacheExpiryHours

\* Request validation of the endpoint: a description of more than 50
\* characters is accepted, a blank or shorter one refused; at exactly 50
\* characters the frontend sends it and the endpoint may take it or not
BackendVerdicts(d) ==
    IF ~Truthy(Trim(d)) \/ Length(d) < MinDescriptionLength THEN {FALSE}
    ELSE IF Length(d) > MinDescriptionLength THEN {TRUE}
    ELSE {TRUE, FALSE}

\* The result the analysis of a description yields
JobAnalysisResult(h) == [job |-> h, fields |-> JobAnalysisResultFields]

\* The wait before the call that follows the n-th failed one, in units of
\* the first wait: it doubles with every failure
BackoffDelay(n) == 2 ^ (n - 1)

\* A retry limit that is off by one: a fourth call is made
MayRetryOnceMore(n) == n <= MaxRetryAttempts

\* May a failed LLM call be tried again after n attempts?
MayRetry(n) == n < MaxRetryAttempts

SuccessResponse(r, result, hit) ==
    [kind |-> "resolved", status |-> StatusOk, success |-> TRUE, detail |-> "",
     result |-> result, cache_hit |-> hit, analysis_id |-> r]

\* How the endpoint reports a failed analysis: a 5xx answer, or a 2xx body
\* with success = false and an error_message
FailureResponses(r, msg) ==
    {[kind |-> "http", status |-> StatusFailed, success |-> FALSE, detail |-> msg,
      result |-> NullResult, cache_hit |-> FALSE, analysis_id |-> r],
     [kind |-> "resolved", status |-> StatusOk, success |-> FALSE, detail |-> msg,
      result |-> NullResult, cache_hit |-> FALSE, analysis_id |-> r]}

ValidationResponse(r) ==
    [kind |-> "http", status |-> StatusUnprocessable, success |-> FALSE,
     detail |-> "validation error", result |-> NullResult, cache_hit |-> FALSE,
     analysis_id |-> 0]

NetworkFailure ==
    [kind |-> "network", status |-> NoStatus, success |-> FALSE, detail |-> "",
     result |-> NullResult, cache_hit |-> FALSE, analysis_id |-> 0]

\* Descriptions an API client other than the page posts
ApiDescriptions == {"short", "fifty", "jobA"}

\* POST /job-analysis/analyze sent by an API client directly
DirectPost(d) ==
    /\ FreeRequests # {}
    /\ reqs' = [reqs EXCEPT ![NextFree] = NewRequest("api", d)]
    /\ UNCHANGED <<jobDescription, analysisState, clicks, cache, history, now>>
    /\ UNCHANGED <<jobsVars, trainingVars, landingVars>>

\* the request never reaches the server
NetworkFail(r) ==
    /\ reqs[r].pc = "sent"
    /\ reqs' = [reqs EXCEPT ![r].pc = "responded", ![r].resp = NetworkFailure]
    /\ UNCHANGED <<jobDescription, analysisState, clicks, cache, history, now>>
    /\ UNCHANGED <<jobsVars, trainingVars, landingVars>>

\* A lookup that holds a miss back while another analysis is under way
AfterLookupSingleFlight(found) ==
    IF found = {} /\ ~\E q \in DOMAIN reqs : reqs[q].pc \in {"llm", "write"}
        THEN "llm" ELSE "responded"

\* A lookup whose result is not looked at: every request goes to the LLM
AfterLookupAlwaysLLM(found) == "llm"

\* Where a request goes after the lookup found the rows `found`
AfterLookup(found) == IF found = {} THEN "llm" ELSE "responded"

\* the endpoint validates the body, hashes the description and looks the
\* hash up in the cache: a hit answers at once and counts the hit, a miss
\* goes on to the LLM provider
Receive(r, accept) ==
    /\ reqs[r].pc = "sent"
    /\ accept \in BackendVerdicts(reqs[r].desc)
    /\ LET h == JobDescriptionHash(reqs[r].desc)
           found == CacheLookup(cache, h, now)
       IN  IF ~accept
              THEN /\ reqs' = [reqs EXCEPT ![r].pc = "responded",
                                           ![r].resp = ValidationResponse(r)]
                   /\ UNCHANGED <<cache, history>>
           ELSE IF found # {}
              THEN LET row == CHOOSE x \in found : TRUE
                   IN  /\ reqs' = [reqs EXCEPT
                              ![r].pc = AfterLookup(found),
                              ![r].hash = h,
                              ![r].order = <<"hash", "lookup", "return">>,
                              ![r].resp = SuccessResponse(r, row.analysis_result, TRUE)]
                       /\ cache' = (cache \ {row}) \cup {CountHit(row)}
                       /\ history' = InsertHistoryRow(history,
                              AnalysisRecord(r, "completed", TRUE, ""))
           ELSE /\ reqs' = [reqs EXCEPT ![r].pc = AfterLookup(found),
                                        ![r].hash = h,
                                        ![r].order = <<"hash", "lookup">>]
                /\ UNCHANGED <<cache, history>>
    /\ UNCHANGED <<jobDescription, analysisState, clicks, now>>
    /\ UNCHANGED <<jobsVars, trainingVars, landingVars>>

\* How a call of the LLM provider can end: no answer (an error, a rate
\* limit), an answer that does not parse, an answer that parses
LLMOutcomes == {"error", "malformed", "ok"}

\* one call of the LLM provider and the parsing of its output; a failed
\* call is retried after a backoff until MaxRetryAttempts calls were made
LLMCall(r, outcome) ==
    /\ reqs[r].pc = "llm"
    /\ LET n == reqs[r].attempts + 1
       IN  CASE outcome = "ok" ->
                  /\ reqs' = [reqs EXCEPT ![r].pc = "write", ![r].attempts = n,
                                ![r].order = Append(Append(@, "llm"), "parse")]
                  /\ UNCHANGED history
             [] outcome = "malformed" ->
                  /\ \E resp \in FailureResponses(r, "Failed to parse LLM response") :
                        reqs' = [reqs EXCEPT
                            ![r].pc = "responded", ![r].attempts = n,
                            ![r].order = Append(Append(Append(@, "llm"), "parse"), "return"),
                            ![r].resp = resp]
                  /\ history' = InsertHistoryRow(history,
                         AnalysisRecord(r, "failed", FALSE, "Failed to parse LLM response"))
             [] outcome = "error" /\ MayRetry(n) ->
                  /\ reqs' = [reqs EXCEPT ![r].attempts = n,
                                          ![r].delay = BackoffDelay(n),
                                          ![r].order = Append(@, "llm")]
                  /\ UNCHANGED history
             [] outcome = "error" /\ ~MayRetry(n) ->
                  /\ \E resp \in FailureResponses(r, "LLM provider unavailable") :
                        reqs' = [reqs EXCEPT
                            ![r].pc = "responded", ![r].attempts = n,
                            ![r].order = Append(Append(@, "llm"), "return"),
                            ![r].resp = resp]
                  /\ history' = InsertHistoryRow(history,
                         AnalysisRecord(r, "failed", FALSE, "LLM provider unavailable"))
    /\ UNCHANGED <<jobDescription, analysisState, clicks, cache, now>>
    /\ UNCHANGED <<jobsVars, trainingVars, landingVars>>

\* Variant: a refused INSERT is reported to the caller as a failed analysis
CacheWriteAnswersRaising(r, refused) ==
    IF refused
        THEN FailureResponses(r, "duplicate key value violates unique constraint")
        ELSE {SuccessResponse(r, JobAnalysisResult(reqs[r].hash), FALSE)}

\* The answers of an analysis after its cache write: the result, whether the
\* INSERT was refused (the refusal is only logged) or not
CacheWriteAnswers(r, refused) ==
    {SuccessResponse(r, JobAnalysisResult(reqs[r].hash), FALSE)}

\* the cache row is written and the result returned; a refused INSERT is
\* logged and the result returned all the same
WriteCache(r) ==
    /\ reqs[r].pc = "write"
    /\ cache' = InsertCacheRow(cache, r, reqs[r].hash,
                               JobAnalysisResult(reqs[r].hash), ExpiresAt(now))
    /\ \E resp \in CacheWriteAnswers(r, UniqueViolation(cache, reqs[r].hash)) :
          reqs' = [reqs EXCEPT
              ![r].pc = "responded",
              ![r].order = Append(Append(@, "write"), "return"),
              ![r].resp = resp]
    /\ history' = InsertHistoryRow(history, AnalysisRecord(r, "completed", FALSE, ""))
    /\ UNCHANGED <<jobDescription, analysisState, clicks, now>>
    /\ UNCHANGED <<jobsVars, trainingVars, landingVars>>

\* the API client receives its answer
ApiReceive(r) ==
    /\ reqs[r].pc = "responded"
    /\ reqs[r].from = "api"
    /\ reqs' = AfterSettle(r)
    /\ UNCHANGED <<jobDescription, analysisState, clicks, cache, history, now>>
    /\ UNCHANGED <<jobsVars, trainingVars, landingVars>>

\* SELECT cleanup_expired_cache()
CleanupExpiredCache ==
    /\ ExpiredRows(cache, now) # {}
    /\ cache' = cache \ ExpiredRows(cache, now)
    /\ UNCHANGED <<jobDescription, analysisState, clicks, reqs, history, now>>
    /\ UNCHANGED <<jobsVars, trainingVars, landingVars>>

\* time passes
Tick ==
    /\ now + ClockStepHours <= MaxClock
    /\ now' = now + ClockStepHours
    /\ UNCHANGED <<jobDescription, analysisState, clicks, reqs, cache, history>>
    /\ UNCHANGED <<jobsVars, trainingVars, landingVars>>

(***************************************************************************)
(* The jobs table (01_create_tables.sql, 02_upsert_data.sql) and           *)
(* jobsService.ts                                                          *)
(***************************************************************************)
\* The rows 02_upsert_data.sql inserts
SampleJobs ==
    {[title |-> "Senior Frontend Developer", company |-> "TechCorp",
      description |-> "We are looking for a Senior Frontend Developer",
      requirements |-> <<"5+ years of frontend development experience">>,
      skills |-> <<"React", "TypeScript">>, tech_stack |-> <<"React", "TypeScript">>,
      location |-> "Remote Friendly", progress |-> 65, updated_at |-> 0],
     [title |-> "Full Stack Engineer", company |-> "StartupXYZ",
      description |-> "Join our fast-growing startup as a Full Stack Engineer",
      requirements |-> <<"3+ years of full stack development">>,
      skills |-> <<"Python", "Django">>, tech_stack |-> <<"Python", "Django">>,
      location |-> "Fully Remote", progress |-> 40, updated_at |-> 0]}

\* A table without rows, and a table with row v under key k
NoRows == [k \in {} |-> 0]
WithRow(table, k, v) ==
    [x \in DOMAIN table \cup {k} |-> IF x = k THEN v ELSE table[x]]

\* progress INTEGER CHECK (progress >= 0 AND progress <= 100)
ProgressCheck(p) == p >= 0 /\ p <= 100

\* Progress values an update is tried with
ProgressValues == {-1, 0, 100, 101}

\* A trigger function that stamps the row's description as well
update_stamps_description(new) ==
    [new EXCEPT !.updated_at = now, !.description = "updated"]

\* update_updated_at_column(): BEFORE UPDATE, NEW.updated_at = CURRENT_TIMESTAMP
update_updated_at_column(new) == [new EXCEPT !.updated_at = now]

\* INSERT INTO jobs ... uuid_generate_v4() ... ON CONFLICT DO NOTHING
InsertJob(job) ==
    /\ Cardinality(DOMAIN jobsAtCreation) < MaxJobs
    /\ LET id == Cardinality(DOMAIN jobsAtCreation) + 1
       IN  /\ jobs' = WithRow(jobs, id, job)
           /\ jobsAtCreation' = WithRow(jobsAtCreation, id, job)
    /\ UNCHANGED <<fetchedJobs, now>>
    /\ UNCHANGED <<jobDescription, analysisState, clicks, reqs, cache, history>>
    /\ UNCHANGED <<trainingVars, landingVars>>

\* progress tracking: UPDATE jobs SET progress = p WHERE id = j, through the
\* CHECK constraint and the update_jobs_updated_at trigger
UpdateJobProgress(j, p) ==
    /\ j \in DOMAIN jobs
    /\ ProgressCheck(p)
    /\ p # jobs[j].progress
    /\ jobs' = [jobs EXCEPT ![j] = update_updated_at_column([@ EXCEPT !.progress = p])]
    /\ UNCHANGED <<jobsAtCreation, fetchedJobs, now>>
    /\ UNCHANGED <<jobDescription, analysisState, clicks, reqs, cache, history>>
    /\ UNCHANGED <<trainingVars, landingVars>>

\* JobsService.getJobs(): GET /jobs
GetJobs ==
    /\ fetchedJobs # jobs
    /\ fetchedJobs' = jobs
    /\ UNCHANGED <<jobs, jobsAtCreation, now>>
    /\ UNCHANGED <<jobDescription, analysisState, clicks, reqs, cache, history>>
    /\ UNCHANGED <<trainingVars, landingVars>>

\* JobsService.getJob(jobId): GET /jobs/{job_id}
GetJob(j) ==
    /\ j \in DOMAIN jobs
    /\ (IF j \in DOMAIN fetchedJobs THEN fetchedJobs[j] # jobs[j] ELSE TRUE)
    /\ fetchedJobs' = WithRow(fetchedJobs, j, jobs[j])
    /\ UNCHANGED <<jobs, jobsAtCreation, now>>
    /\ UNCHANGED <<jobDescription, analysisState, clicks, reqs, cache, history>>
    /\ UNCHANGED <<trainingVars, landingVars>>

\* 00_drop_all.sql: DROP TABLE IF EXISTS jobs CASCADE (and the table made anew)
DropJobs ==
    /\ DOMAIN jobs # {}
    /\ jobs' = NoRows
    /\ UNCHANGED <<jobsAtCreation, fetchedJobs, now>>
    /\ UNCHANGED <<jobDescription, analysisState, clicks, reqs, cache, history>>
    /\ UNCHANGED <<trainingVars, landingVars>>

(***************************************************************************)
(* skill_cards, skillsService.ts and SkillTraining.tsx                     *)
(***************************************************************************)
\* Two of the rows 02_upsert_data.sql inserts into skill_cards
SampleSkillCards ==
    [s \in {"JavaScript", "System Design"} |->
        IF s = "JavaScript"
            THEN [name |-> s, questionsCompleted |-> 7, questionsTotal |-> 12,
                  exercisesCompleted |-> 4, exercisesTotal |-> 8]
            ELSE [name |-> s, questionsCompleted |-> 4, questionsTotal |-> 10,
                  exercisesCompleted |-> 0, exercisesTotal |-> 0]]

SkillNames == DOMAIN SampleSkillCards

NoCard ==
    [name |-> "none", questionsCompleted |-> 0, questionsTotal |-> 0,
     exercisesCompleted |-> 0, exercisesTotal |-> 0]

\* The jobs of the dashboard's job cards, by title
DashboardJobs == {"Senior Frontend Developer", "Full Stack Engineer"}

\* JobTraining as its useState calls leave it, with the skills being fetched
\* (skillsFetch follows the GET /skills call); SkillTraining with its
\* skillData.  fromSkillTraining is that of location.state; pending holds the skill fetches under way after clicks on skill
\* cards, each with the selectedJob of the click; lastClicked is the skill
\* clicked last whose fetch has not failed; alert is the browser's alert
InitialTraining ==
    [page |-> "job-training", selectedJob |-> "placeholder",
     isPlaceholderMode |-> TRUE, fromSkillTraining |-> FALSE, skills |-> <<>>,
     skillsLoading |-> TRUE, skillsError |-> "null", skillsFetch |-> "pending",
     pending |-> {}, lastClicked |-> "none", alert |-> "null",
     skill |-> NoCard, questions |-> 0, exercises |-> 0,
     currentQuestionIndex |-> 0, currentExerciseIndex |-> 0,
     activeTab |-> "questions"]

\* The dashboard at "/": neither JobTraining nor SkillTraining is mounted
HomePage ==
    [InitialTraining EXCEPT !.page = "dashboard", !.selectedJob = "none",
                            !.skillsLoading = FALSE, !.skillsFetch = "none"]

\* What outlives the pages: the fetches under way, the last click, the alert
KeepingFetches(t) ==
    [t EXCEPT !.pending = training.pending,
              !.lastClicked = training.lastClicked,
              !.alert = training.alert]

\* Variant: an effect that tests fromSkillTraining before the job
MountJobTrainingHomeFirst(jobFromState, fromSkillTraining) ==
    IF fromSkillTraining
        THEN HomePage
    ELSE IF jobFromState # "none"
        THEN [InitialTraining EXCEPT !.selectedJob = jobFromState,
                                     !.isPlaceholderMode = FALSE]
    ELSE InitialTraining

\* JobTraining mounts with location.state = {selectedJob: jobFromState,
\* fromSkillTraining} ("none": no job in the state) and runs its first effect
MountJobTraining(jobFromState, fromSkillTraining) ==
    IF jobFromState # "none"
        THEN [InitialTraining EXCEPT !.selectedJob = jobFromState,
                                     !.isPlaceholderMode = FALSE,
                                     !.fromSkillTraining = fromSkillTraining]
    ELSE IF fromSkillTraining
        THEN HomePage
    ELSE InitialTraining

\* Nothing submitted: no SkillTraining page is open, or it has just opened
NoSubmissions == [s \in SkillNames |-> [answers |-> FALSE, exercises |-> FALSE]]

\* alert() blocks the page until it is closed
NoAlertOpen == training.alert = "null"

\* handlePractice of a dashboard job card
Practice(job) ==
    /\ NoAlertOpen
    /\ training.page = "dashboard"
    /\ training' = KeepingFetches(MountJobTraining(job, FALSE))
    /\ UNCHANGED <<skillCards, submissions>>
    /\ UNCHANGED <<analysisVars, jobsVars, landingVars>>

\* the route /job-training opened without a state
OpenJobTraining ==
    /\ NoAlertOpen
    /\ training.page = "dashboard"
    /\ training' = KeepingFetches(MountJobTraining("none", FALSE))
    /\ UNCHANGED <<skillCards, submissions>>
    /\ UNCHANGED <<analysisVars, jobsVars, landingVars>>

\* the Dashboard link of DashboardLayout, the back button of
\* JobTrainingHeader, handleSelectJob: navigate("/")
GoToDashboard ==
    /\ NoAlertOpen
    /\ training.page # "dashboard"
    /\ training' = KeepingFetches(HomePage)
    /\ submissions' = NoSubmissions
    /\ UNCHANGED skillCards
    /\ UNCHANGED <<analysisVars, jobsVars, landingVars>>

\* fetchSkills: SkillsService.getSkills() answers
FetchSkills ==
    /\ NoAlertOpen
    /\ training.page = "job-training"
    /\ training.skillsFetch = "pending"
    /\ training' = [training EXCEPT !.skills = skillCards,
                                    !.skillsFetch = "ok",
                                    !.skillsLoading = FALSE]
    /\ UNCHANGED <<skillCards, submissions>>
    /\ UNCHANGED <<analysisVars, jobsVars, landingVars>>

\* fetchSkills: SkillsService.getSkills() fails
FetchSkillsFail ==
    /\ NoAlertOpen
    /\ training.page = "job-training"
    /\ training.skillsFetch = "pending"
    /\ training' = [training EXCEPT
           !.skillsError = "Failed to load skills. Please try again later.",
           !.skillsFetch = "failed",
           !.skillsLoading = FALSE]
    /\ UNCHANGED <<skillCards, submissions>>
    /\ UNCHANGED <<analysisVars, jobsVars, landingVars>>

\* the skills error view is on screen, with its Try Again button
SkillsErrorShown ==
    /\ training.page = "job-training"
    /\ ~training.skillsLoading
    /\ training.skillsError # "null"

\* the skills grid is on screen
SkillsGridShown ==
    /\ training.page = "job-training"
    /\ ~training.skillsLoading
    /\ training.skillsError = "null"

\* Try Again of the skills error view: window.location.reload().  The page
\* mounts again with the location.state it had; the fetches under way are gone
ReloadPage ==
    /\ NoAlertOpen
    /\ SkillsErrorShown
    /\ training' = MountJobTraining(IF training.isPlaceholderMode THEN "none"
                                    ELSE training.selectedJob,
                                    training.fromSkillTraining)
    /\ UNCHANGED <<skillCards, submissions>>
    /\ UNCHANGED <<analysisVars, jobsVars, landingVars>>

\* Variant: a skill card that takes clicks in placeholder mode too
SkillCardClickableAlways == SkillsGridShown

\* <SkillCard onClick={!isPlaceholderMode ? onClick : undefined}>
SkillCardClickable ==
    SkillsGridShown /\ ~training.isPlaceholderMode

\* handleSkillClick up to its await: the questions and the exercises of the
\* skill are asked for; the page stays as it is
ClickSkill(s) ==
    /\ NoAlertOpen
    /\ SkillCardClickable
    /\ s \in DOMAIN training.skills
    /\ [skill |-> s, job |-> training.selectedJob] \notin training.pending
    /\ training' = [training EXCEPT
           !.pending = @ \cup {[skill |-> s, job |-> training.selectedJob]},
           !.lastClicked = s]
    /\ UNCHANGED <<skillCards, submissions>>
    /\ UNCHANGED <<analysisVars, jobsVars, landingVars>>

\* SkillTraining after navigate("/skill-training", {state}) for the fetch f
\* with nq questions and ne exercises: it mounts with them; when it is mounted
\* already, its effect takes the new skillData and selectedJob and the
\* indices and the tab stay
SkillTrainingWith(f, nq, ne) ==
    IF training.page = "skill-training"
        THEN [training EXCEPT
                 !.selectedJob = f.job,
                 !.pending = @ \ {f}, !.skill = skillCards[f.skill],
                 !.questions = nq, !.exercises = ne]
        ELSE [KeepingFetches(InitialTraining) EXCEPT
                 !.page = "skill-training", !.selectedJob = f.job,
                 !.isPlaceholderMode = FALSE,
                 !.skillsLoading = FALSE, !.skillsFetch = "none",
                 !.pending = @ \ {f}, !.skill = skillCards[f.skill],
                 !.questions = nq, !.exercises = ne]

\* handleSkillClick after its await: navigate("/skill-training") with the
\* skill, nq questions and ne exercises and the selectedJob of the click
SkillDataArrives(f, nq, ne) ==
    /\ NoAlertOpen
    /\ f \in training.pending
    /\ training' = SkillTrainingWith(f, nq, ne)
    /\ UNCHANGED <<skillCards, submissions>>
    /\ UNCHANGED <<analysisVars, jobsVars, landingVars>>

\* handleSkillClick: the catch, alert("Failed to load skill data. ...")
SkillDataFails(f) ==
    /\ NoAlertOpen
    /\ f \in training.pending
    /\ training' = [training EXCEPT
           !.pending = @ \ {f},
           !.lastClicked = IF @ = f.skill THEN "none" ELSE @,
           !.alert = "Failed to load skill data. Please try again."]
    /\ UNCHANGED <<skillCards, submissions>>
    /\ UNCHANGED <<analysisVars, jobsVars, landingVars>>

\* the alert is closed
DismissAlert ==
    /\ training.alert # "null"
    /\ training' = [training EXCEPT !.alert = "null"]
    /\ UNCHANGED <<skillCards, submissions>>
    /\ UNCHANGED <<analysisVars, jobsVars, landingVars>>

\* the question card is on screen
QuestionCardShown ==
    /\ training.page = "skill-training"
    /\ training.activeTab = "questions"
    /\ training.questions > 0
    /\ ~(training.currentQuestionIndex >= training.questions)

\* the exercise card is on screen
ExerciseCardShown ==
    /\ training.page = "skill-training"
    /\ training.activeTab = "exercises"
    /\ training.exercises > 0
    /\ ~(training.currentExerciseIndex >= training.exercises)

\* What a submission does to the skill cards held by the backend
CardsAfterSubmit(cards, s, kind) == cards

\* handleSubmitAnswer
SubmitAnswer ==
    /\ NoAlertOpen
    /\ QuestionCardShown
    /\ training' =
          IF training.currentQuestionIndex <= training.questions - 1
             THEN [training EXCEPT !.currentQuestionIndex = @ + 1]
             ELSE training
    /\ skillCards' = CardsAfterSubmit(skillCards, training.skill.name, "question")
    /\ submissions' = [submissions EXCEPT ![training.skill.name].answers = TRUE]
    /\ UNCHANGED <<analysisVars, jobsVars, landingVars>>

\* handlePreviousQuestion, offered when currentIndex > 0
PreviousQuestion ==
    /\ NoAlertOpen
    /\ QuestionCardShown
    /\ training.currentQuestionIndex > 0
    /\ training' = [training EXCEPT !.currentQuestionIndex = @ - 1]
    /\ UNCHANGED <<skillCards, submissions>>
    /\ UNCHANGED <<analysisVars, jobsVars, landingVars>>

\* handleSubmitExercise
SubmitExercise ==
    /\ NoAlertOpen
    /\ ExerciseCardShown
    /\ training' =
          IF training.currentExerciseIndex <= training.exercises - 1
             THEN [training EXCEPT !.currentExerciseIndex = @ + 1]
             ELSE training
    /\ skillCards' = CardsAfterSubmit(skillCards, training.skill.name, "exercise")
    /\ submissions' = [submissions EXCEPT ![training.skill.name].exercises = TRUE]
    /\ UNCHANGED <<analysisVars, jobsVars, landingVars>>

\* handlePreviousExercise, offered when currentIndex > 0
PreviousExercise ==
    /\ NoAlertOpen
    /\ ExerciseCardShown
    /\ training.currentExerciseIndex > 0
    /\ training' = [training EXCEPT !.currentExerciseIndex = @ - 1]
    /\ UNCHANGED <<skillCards, submissions>>
    /\ UNCHANGED <<analysisVars, jobsVars, landingVars>>

\* TabNavigation: setActiveTab
SetActiveTab(tab) ==
    /\ NoAlertOpen
    /\ training.page = "skill-training"
    /\ tab # training.activeTab
    /\ training' = [training EXCEPT !.activeTab = tab]
    /\ UNCHANGED <<skillCards, submissions>>
    /\ UNCHANGED <<analysisVars, jobsVars, landingVars>>

\* handleTrainAnotherSkill, offered by CompleteState: back to JobTraining,
\* which mounts anew and fetches the skills again
TrainAnotherSkill ==
    /\ NoAlertOpen
    /\ training.page = "skill-training"
    /\ \/ /\ training.activeTab = "questions" /\ training.questions > 0
          /\ training.currentQuestionIndex >= training.questions
       \/ /\ training.activeTab = "exercises" /\ training.exercises > 0
          /\ training.currentExerciseIndex >= training.exercises
    /\ training' = KeepingFetches(MountJobTraining(training.selectedJob, TRUE))
    /\ submissions' = NoSubmissions
    /\ UNCHANGED skillCards
    /\ UNCHANGED <<analysisVars, jobsVars, landingVars>>

\* handleBackClick of SkillTrainingHeader: "Back to Job Training"
BackToJobTraining ==
    /\ NoAlertOpen
    /\ training.page = "skill-training"
    /\ training' = KeepingFetches(MountJobTraining(training.selectedJob, FALSE))
    /\ submissions' = NoSubmissions
    /\ UNCHANGED skillCards
    /\ UNCHANGED <<analysisVars, jobsVars, landingVars>>

(***************************************************************************)
(* App with the LandingPage wizard (the App that keeps isConfigured)       *)
(***************************************************************************)
\* What can stand in the API key input: nothing, blanks, a key
ApiKeys == {"", "  ", "sk-1"}

\* apiKey.trim().length
TrimmedKeyLength(k) ==
    CASE k = "sk-1" -> 4
      [] OTHER      -> 0

\* The checkboxes of step 2 that the model ticks and unticks
LanguageChoices == {"JavaScript", "Python", "Go"}

QuestionTypeChoices == {"technical", "behavioral"}

\* LandingPage as it mounts: useState(1) and the empty llmConfig.apiKey
LandingPageMounted(l) ==
    [l EXCEPT !.currentStep = 1, !.apiKey = ""]

\* App's useState: the default preferences, isConfigured = false; the app
\* opens at "/"
InitialLanding ==
    [path |-> "/", currentStep |-> 1, apiKey |-> "",
     preferredLanguages |-> {"JavaScript", "Python"},
     questionTypes |-> {"technical", "behavioral"},
     isConfigured |-> FALSE]

\* The element <Routes> renders for the path: the routes of the tools are
\* registered only when isConfigured
RouteElement ==
    CASE landing.path = "/" -> "LandingPage"
      [] landing.path = "/analyze" /\ landing.isConfigured -> "JobAnalyzer"
      [] landing.path = "/questions" /\ landing.isConfigured -> "QuestionGenerator"
      [] OTHER -> "none"

\* Variant: every step counts as valid
isStepValidAlways == TRUE

\* isStepValid()
isStepValid ==
    CASE landing.currentStep = 1 -> TrimmedKeyLength(landing.apiKey) > 0
      [] landing.currentStep = 2 ->
            /\ Cardinality(landing.preferredLanguages) > 0
            /\ Cardinality(landing.questionTypes) > 0
      [] landing.currentStep = 3 -> TRUE
      [] OTHER -> FALSE

\* typing into the API key input of step 1
SetApiKey(k) ==
    /\ landing.path = "/"
    /\ landing.currentStep = 1
    /\ k # landing.apiKey
    /\ landing' = [landing EXCEPT !.apiKey = k]
    /\ UNCHANGED <<analysisVars, jobsVars, trainingVars>>

\* a language checkbox of step 2: onPreferencesUpdate with the language added
\* or filtered out
ToggleLanguage(lang) ==
    /\ landing.path = "/"
    /\ landing.currentStep = 2
    /\ landing' = [landing EXCEPT !.preferredLanguages =
                      IF lang \in @ THEN @ \ {lang} ELSE @ \cup {lang}]
    /\ UNCHANGED <<analysisVars, jobsVars, trainingVars>>

\* a question type checkbox of step 2
ToggleQuestionType(type) ==
    /\ landing.path = "/"
    /\ landing.currentStep = 2
    /\ landing' = [landing EXCEPT !.questionTypes =
                      IF type \in @ THEN @ \ {type} ELSE @ \cup {type}]
    /\ UNCHANGED <<analysisVars, jobsVars, trainingVars>>

\* handleNext, behind the Next / Get Started button (disabled={!isStepValid()});
\* at step 3 onConfigurationComplete() and navigate("/analyze")
handleNext ==
    /\ landing.path = "/"
    /\ isStepValid
    /\ landing' =
          IF landing.currentStep < 3
             THEN [landing EXCEPT !.currentStep = @ + 1]
             ELSE LandingPageMounted([landing EXCEPT !.isConfigured = TRUE,
                                                     !.path = "/analyze"])
    /\ UNCHANGED <<analysisVars, jobsVars, trainingVars>>

\* handleBack, behind the Back button (disabled={currentStep === 1})
handleBack ==
    /\ landing.path = "/"
    /\ landing.currentStep # 1
    /\ landing' =
          IF landing.currentStep > 1
             THEN [landing EXCEPT !.currentStep = @ - 1]
             ELSE landing
    /\ UNCHANGED <<analysisVars, jobsVars, trainingVars>>

\* the Analyze Job and Generate Questions buttons of step 3:
\* onClick={() => navigate(path)}
NavigateFromStep3(path) ==
    /\ landing.path = "/"
    /\ landing.currentStep = 3
    /\ landing' = LandingPageMounted([landing EXCEPT !.path = path])
    /\ UNCHANGED <<analysisVars, jobsVars, trainingVars>>

\* back to "/": LandingPage mounts again
ReturnToLanding ==
    /\ landing.path # "/"
    /\ landing' = LandingPageMounted([landing EXCEPT !.path = "/"])
    /\ UNCHANGED <<analysisVars, jobsVars, trainingVars>>

(***************************************************************************)
(* Specifications                                                          *)
(***************************************************************************)
Init ==
    /\ jobDescription = "empty"
    /\ analysisState = InitialAnalysisState
    /\ clicks = <<>>
    /\ reqs = [r \in 1..MaxPosts |-> UnusedRequest]
    /\ cache = {}
    /\ history = {}
    /\ now = 0
    /\ jobs = NoRows
    /\ jobsAtCreation = NoRows
    /\ fetchedJobs = NoRows
    /\ skillCards = SampleSkillCards
    /\ training = HomePage
    /\ submissions = NoSubmissions
    /\ landing = InitialLanding

\* A step of the analyze endpoint for exchange r
BackendStep(r) ==
    \/ \E accept \in BOOLEAN : Receive(r, accept)
    \/ \E outcome \in LLMOutcomes : LLMCall(r, outcome)
    \/ WriteCache(r)

\* The analyze endpoint and its cache, called by API clients
Next ==
    \/ \E d \in ApiDescriptions : DirectPost(d)
    \/ \E r \in DOMAIN reqs :
          \/ NetworkFail(r)
          \/ BackendStep(r)
          \/ ApiReceive(r)
    \/ CleanupExpiredCache
    \/ Tick

Spec == Init /\ [][Next]_vars

\* The endpoint and its cache as time goes by: the clock advances, request
\* handlers go on and clients take their answers.  cleanup_expired_cache()
\* runs when somebody calls it: no trigger and no job of the schema does
CacheSpec ==
    /\ Spec
    /\ WF_vars(Tick)
    /\ \A r \in 1..MaxPosts : WF_vars(BackendStep(r) \/ ApiReceive(r))

\* The analyses of the endpoint, from the receipt of a request to its
\* answer.  The endpoint goes on with every request it has received: a
\* request handler that can take a step takes it
AnalysisNext ==
    \/ \E d \in ApiDescriptions : DirectPost(d)
    \/ \E r \in DOMAIN reqs :
          \/ BackendStep(r)
          \/ ApiReceive(r)

AnalysisSpec ==
    /\ Init
    /\ [][AnalysisNext]_vars
    /\ \A r \in 1..MaxPosts : WF_vars(BackendStep(r))

\* The JobTargeting page in front of the analyze endpoint
PageNext ==
    \/ \E d \in Descriptions : SetJobDescription(d)
    \/ ClickAnalyze
    \/ ClickTryAgain
    \/ ClickClear
    \/ ClickNewAnalysis
    \/ \E r \in DOMAIN reqs :
          \/ NetworkFail(r)
          \/ BackendStep(r)
          \/ Settle(r)
    \/ CleanupExpiredCache
    \/ Tick

PageSpec == Init /\ [][PageNext]_vars

\* The jobs table and its readers
JobsNext ==
    \/ \E job \in SampleJobs : InsertJob(job)
    \/ \E j \in 1..MaxJobs : \E p \in ProgressValues : UpdateJobProgress(j, p)
    \/ GetJobs
    \/ \E j \in 1..MaxJobs : GetJob(j)
    \/ DropJobs
    \/ Tick

JobsSpec == Init /\ [][JobsNext]_vars

\* JobTraining and SkillTraining
TrainingNext ==
    \/ \E job \in DashboardJobs : Practice(job)
    \/ OpenJobTraining
    \/ GoToDashboard
    \/ FetchSkills
    \/ FetchSkillsFail
    \/ ReloadPage
    \/ \E s \in SkillNames : ClickSkill(s)
    \/ \E f \in training.pending :
          \/ \E nq \in 0..MaxItems : \E ne \in 0..MaxItems :
                SkillDataArrives(f, nq, ne)
          \/ SkillDataFails(f)
    \/ DismissAlert
    \/ SubmitAnswer
    \/ PreviousQuestion
    \/ SubmitExercise
    \/ PreviousExercise
    \/ \E tab \in {"questions", "exercises"} : SetActiveTab(tab)
    \/ TrainAnotherSkill
    \/ BackToJobTraining

TrainingSpec == Init /\ [][TrainingNext]_vars

\* The App with the landing wizard
LandingNext ==
    \/ \E k \in ApiKeys : SetApiKey(k)
    \/ \E lang \in LanguageChoices : ToggleLanguage(lang)
    \/ \E type \in QuestionTypeChoices : ToggleQuestionType(type)
    \/ handleNext
    \/ handleBack
    \/ \E path \in {"/analyze", "/questions"} : NavigateFromStep3(path)
    \/ ReturnToLanding

LandingSpec == Init /\ [][LandingNext]_vars

(***************************************************************************)
(* Properties of the analysis cache and the analyze endpoint               *)
(***************************************************************************)
\* The rows of the table that have not expired
ValidRows == {row \in cache : row.expires_at > now}

\* The exchanges the endpoint is working on or has answered
Accepted == {r \in DOMAIN reqs : reqs[r].hash # "none"}

\* C1: at every moment job_analysis_cache holds at most one non-expired row
\* for any given job-description hash, whatever the order of the writes
C1_OneValidRowPerHash ==
    \A a \in ValidRows : \A b \in ValidRows :
        a.job_description_hash = b.job_description_hash => a = b

\* C1 witness: an analysis has written its result while the valid row of its
\* hash is the one another analysis wrote
C1_Witness ==
    \E r \in DOMAIN reqs : \E row \in ValidRows :
        /\ reqs[r].pc = "responded"
        /\ reqs[r].order = <<"hash", "lookup", "llm", "parse", "write", "return">>
        /\ row.job_description_hash = reqs[r].hash
        /\ row.id # r

\* C2: identical requests are not deduplicated: a request whose lookup finds
\* no valid row goes on to the LLM provider, whatever the other requests of
\* the same hash are doing
C2_NoDeduplication ==
    [][\A r \in DOMAIN reqs :
          (/\ reqs[r].pc = "sent"
           /\ reqs'[r].hash # "none"
           /\ CacheLookup(cache, reqs'[r].hash, now) = {})
          => reqs'[r].pc = "llm"]_vars

\* C2 witness: two overlapping requests for the same description have both
\* missed the cache and have both called the LLM provider
C2_Witness ==
    \E a \in DOMAIN reqs : \E b \in DOMAIN reqs :
        /\ a # b
        /\ reqs[a].desc = reqs[b].desc
        /\ reqs[a].hash # "none" /\ reqs[a].hash = reqs[b].hash
        /\ reqs[a].pc = "llm" /\ reqs[a].attempts >= 1
        /\ reqs[b].pc = "llm" /\ reqs[b].attempts >= 1
        /\ cache = {}

\* The order of the endpoint's steps: hash, lookup, then either return (a
\* hit) or LLM calls, parse, write, return
StepRank(step) ==
    CASE step = "hash"   -> 1
      [] step = "lookup" -> 2
      [] step = "llm"    -> 3
      [] step = "parse"  -> 4
      [] step = "write"  -> 5
      [] step = "return" -> 6

Steps(r) == {reqs[r].order[i] : i \in DOMAIN reqs[r].order}

\* C3: every request is hashed, then looked up, and only on a miss the LLM
\* is called, its output parsed, a row written and the result returned, in
\* that order; a hit is returned without any LLM call
C3_StepOrder ==
    \A r \in Accepted :
        LET o == reqs[r].order
        IN  /\ Len(o) >= 2 /\ o[1] = "hash" /\ o[2] = "lookup"
            /\ \A i \in DOMAIN o : \A j \in DOMAIN o :
                  i < j => \/ StepRank(o[i]) < StepRank(o[j])
                           \/ o[i] = "llm" /\ o[j] = "llm"
            /\ "write" \in Steps(r) => "parse" \in Steps(r)
            /\ "parse" \in Steps(r) => "llm" \in Steps(r)
            /\ reqs[r].resp.cache_hit =>
                  /\ o = <<"hash", "lookup", "return">>
                  /\ reqs[r].attempts = 0
            /\ (reqs[r].pc = "responded" /\ ~reqs[r].resp.cache_hit) =>
                  /\ "llm" \in Steps(r)
                  /\ reqs[r].attempts >= 1
                  /\ o[Len(o)] = "return"
                  /\ reqs[r].resp.result # NullResult => "write" \in Steps(r)

\* C3 witness: one request was answered from the cache without an LLM call,
\* another went through LLM call, parse and write
C3_Witness ==
    \E a \in DOMAIN reqs : \E b \in DOMAIN reqs :
        /\ reqs[a].pc = "responded" /\ reqs[a].resp.cache_hit
        /\ reqs[a].attempts = 0
        /\ reqs[b].pc = "responded"
        /\ reqs[b].order = <<"hash", "lookup", "llm", "llm", "parse", "write", "return">>

\* C4: a row is served as a hit only while now < expires_at; expires_at is
\* set 24 hours after the write; no step of a request removes a row
C4_ExpiryByTimestamp ==
    [][/\ \A r \in DOMAIN reqs :
             (reqs[r].pc = "sent" /\ reqs'[r].resp.cache_hit) =>
                \E row \in cache :
                    /\ row.job_description_hash = reqs'[r].hash
                    /\ row.analysis_result = reqs'[r].resp.result
                    /\ now < row.expires_at
       /\ \A row \in cache' :
             (\A old \in cache : old.id # row.id) =>
                row.expires_at = now + CacheExpiryHours
       /\ reqs' # reqs =>
             \A old \in cache : \E row \in cache' :
                 /\ row.id = old.id
                 /\ row.expires_at = old.expires_at]_vars

\* C4 witness: a request has missed the cache although the table holds a row
\* of its hash, in the very hour that row expires, and the row is still there
C4_Witness ==
    \E r \in DOMAIN reqs : \E row \in cache :
        /\ reqs[r].pc = "llm"
        /\ row.job_description_hash = reqs[r].hash
        /\ row.expires_at = now

AnsweredLong ==
    {r \in DOMAIN reqs :
        /\ reqs[r].pc = "responded"
        /\ reqs[r].resp.kind # "network"
        /\ Length(reqs[r].desc) > MinDescriptionLength}

\* A 200 response whose result object contains skill_recommendations
OkWithRecommendations(resp) ==
    /\ resp.kind = "resolved"
    /\ resp.status = StatusOk
    /\ "skill_recommendations" \in resp.result.fields

ErrorStatuses == {NoStatus, StatusOk, StatusFailed, StatusUnprocessable}

\* The awaited call of exchange r settles in this step
Settles(r) == reqs[r].pc = "responded" /\ reqs'[r].pc # "responded"

\* A failed call is surfaced: the page holds an error object with a message
\* and, for an HTTP answer, its status, and shows the error panel
FailureSurfaced ==
    \A r \in DOMAIN reqs :
        (Settles(r) /\ ~CarriesResult(reqs[r].resp)) =>
            /\ ErrorPanelShown'
            /\ analysisState'.error.message \notin {"null", ""}
            /\ analysisState'.error.status \in ErrorStatuses
            /\ reqs[r].resp.kind = "http" =>
                  /\ analysisState'.error.status = reqs[r].resp.status
                  /\ analysisState'.error.message = reqs[r].resp.detail
            /\ reqs[r].resp.kind = "network" =>
                  analysisState'.error.status = NoStatus

\* The analysis is started with the current description in this step
AnalysisStarted ==
    /\ analysisState'.isLoading
    /\ analysisState'.error = NullError
    /\ \E r \in DOMAIN reqs :
          /\ reqs[r].pc = "unused"
          /\ reqs'[r] = NewRequest("page", jobDescription)
          /\ \A q \in DOMAIN reqs \ {r} : reqs'[q] = reqs[q]

\* The error on the page is that of a failed call, not one of the page's
\* own validation (those carry a code)
FailedCallShown == ErrorPanelShown /\ analysisState.error.code = "null"

\* C6 as stated: every failed call is surfaced in the error panel, and a
\* click on the Try Again of that panel starts the analysis again with the
\* current description
C6_Original ==
    [][FailureSurfaced /\ (FailedCallShown /\ ClickTryAgain => AnalysisStarted)]_vars

\* C6 as amended: every failed call is surfaced in the error panel; a click
\* on Try Again starts the analysis again with the current description when
\* that description passes the page's validation, and otherwise sets the
\* validation error and sends nothing
C6_FailureSurfacedAndRetry ==
    [][/\ FailureSurfaced
       /\ ClickTryAgain =>
             IF AnalyzeRejection(jobDescription) = NullError
                THEN AnalysisStarted
                ELSE /\ reqs' = reqs
                     /\ ~analysisState'.isLoading
                     /\ analysisState'.error = AnalyzeRejection(jobDescription)]_vars

\* C6 witness: the first call failed, and the click on Try Again has sent
\* the current description again
C6_Witness ==
    /\ clicks = <<"Analyze Job", "Try Again">>
    /\ analysisState.isLoading
    /\ reqs[1].pc = "settled"
    /\ reqs[2].pc = "sent" /\ reqs[2].desc = jobDescription

\* The exchanges that have been sent
Posted == {r \in DOMAIN reqs : reqs[r].pc # "unused"}

JobContent(job) ==
    [title |-> job.title, company |-> job.company,
     description |-> job.description, requirements |-> job.requirements,
     skills |-> job.skills, tech_stack |-> job.tech_stack,
     location |-> job.location]

\* C9: after its creation a job keeps its title, company, description,
\* requirements, skills and tech stack, in the table and in what the
\* frontend was given; of the fields set at creation only progress changes
C9_JobImmutableExceptProgress ==
    /\ \A j \in DOMAIN jobs :
          JobContent(jobs[j]) = JobContent(jobsAtCreation[j])
    /\ \A j \in DOMAIN fetchedJobs :
          JobContent(fetchedJobs[j]) = JobContent(jobsAtCreation[j])

\* C9 witness: a job's progress has been updated after its creation, and
\* the frontend has fetched the updated job
C9_Witness ==
    \E j \in DOMAIN jobs :
        /\ jobs[j].progress # jobsAtCreation[j].progress
        /\ jobs[j].updated_at > jobsAtCreation[j].updated_at
        /\ j \in DOMAIN fetchedJobs
        /\ fetchedJobs[j] = jobs[j]

\* C10: once the user has submitted an answer (an exercise) for a skill, the
\* skill's questions-completed (exercises-completed) counter has gone up, in
\* skill_cards or on the card the page holds
C10_CountersReflectSubmission ==
    \A s \in SkillNames :
        /\ submissions[s].answers =>
              \/ skillCards[s].questionsCompleted >
                    SampleSkillCards[s].questionsCompleted
              \/ /\ training.skill.name = s
                 /\ training.skill.questionsCompleted >
                       SampleSkillCards[s].questionsCompleted
        /\ submissions[s].exercises =>
              \/ skillCards[s].exercisesCompleted >
                    SampleSkillCards[s].exercisesCompleted
              \/ /\ training.skill.name = s
                 /\ training.skill.exercisesCompleted >
                       SampleSkillCards[s].exercisesCompleted

(***************************************************************************)
(* Properties of the history table, the hit counter and the cleanup        *)
(***************************************************************************)
\* The history rows of analysis id
HistoryOf(id) == {row \in history : row.analysis_id = id}

\* The endpoint answers the analysis of exchange r in this step
Answers(r) ==
    /\ reqs[r].pc \in {"sent", "llm", "write"}
    /\ reqs'[r].pc = "responded"
    /\ reqs'[r].hash # "none"

C12_HitCountCountsHits ==
    [][\A old \in cache : \A row \in cache' :
          row.id = old.id =>
             row.hit_count = old.hit_count +
                Cardinality({r \in DOMAIN reqs :
                    /\ Answers(r)
                    /\ reqs'[r].resp.cache_hit
                    /\ reqs'[r].hash = old.job_description_hash})]_vars

\* C12 witness: a row that has served one hit
C12_Witness ==
    \E row \in cache : \E hit \in history :
        /\ row.hit_count = 1
        /\ hit.cache_hit
        /\ hit.analysis_id # row.id

\* The cache row of id is in the table and its expires_at has passed
ExpiredInTable(id) ==
    \E row \in cache : row.id = id /\ row.expires_at < now

\* C13: every cache row whose expires_at has passed is eventually deleted
\* without anybody calling for it, and what is deleted are only rows whose
\* expires_at is earlier than the current time
C13_ExpiredRowsCleanedUp ==
    /\ \A id \in 1..MaxPosts :
          [](ExpiredInTable(id) => <>(\A row \in cache : row.id # id))
    /\ [][\A old \in cache :
             (\A row \in cache' : row.id # old.id) => old.expires_at < now]_vars

\* the loading view of JobTraining is on screen
LoadingStateShown ==
    training.page = "job-training" /\ training.skillsLoading

\* C14: every asynchronous operation of JobTraining, the loading of the skills
\* list and the loading of a clicked skill's questions and exercises, shows a
\* loading state while it is pending and, once it failed, an error state with
\* a retry button
C14_LoadingAndErrorStates ==
    /\ training.page = "job-training" =>
          /\ training.skillsFetch = "pending" => LoadingStateShown
          /\ training.skillsFetch = "failed" => SkillsErrorShown
    /\ training.pending # {} => LoadingStateShown
    /\ training.alert # "null" => SkillsErrorShown

\* The rows of the cache table, valid or expired, that hold hash h
RowsOf(rows, h) == {row \in rows : row.job_description_hash = h}

C16_FreshEntryAfterExpiry ==
    [][\A r \in DOMAIN reqs :
          (/\ reqs[r].pc = "write" /\ reqs'[r].pc = "responded"
           /\ \E row \in RowsOf(cache, reqs[r].hash) : row.expires_at <= now)
          => \E row \in RowsOf(cache', reqs[r].hash) : row.expires_at > now]_vars

\* The analyze requests of the page that are outstanding: sent and not yet
\* settled
Outstanding ==
    {r \in DOMAIN reqs : reqs[r].from = "page" /\ reqs[r].pc \notin {"unused", "settled"}}

\* C17: the page has at most one analyze request outstanding; it is loading
\* exactly while one is; and while it is loading no step (no click on Analyze
\* Job, Try Again, Clear or New Analysis) sends a second request
C17_OneOutstandingRequest ==
    /\ [](/\ Cardinality(Outstanding) <= 1
          /\ analysisState.isLoading <=> Outstanding # {}
          /\ analysisState.isLoading =>
                /\ ~AnalyzeButtonEnabled
                /\ ~ErrorPanelShown
                /\ ~hasCompletedAnalysis)
    /\ [][analysisState.isLoading =>
             \A r \in DOMAIN reqs : reqs[r].pc = "unused" => reqs'[r].pc = "unused"]_vars

\* the page is loading its second analysis, the first one having settled
C17_Witness ==
    /\ analysisState.isLoading
    /\ Len(clicks) = 2
    /\ \E a \in DOMAIN reqs : \E b \in Outstanding :
          /\ reqs[a].from = "page" /\ reqs[a].pc = "settled"
          /\ reqs[b].pc = "llm"

\* C18: while the page is loading it holds neither an error nor a result,
\* and it never holds a result and an error at once
C18_LoadingErrorResultExclusive ==
    /\ analysisState.isLoading =>
          (analysisState.error = NullError /\ analysisState.result = NullResult)
    /\ ~(analysisState.result # NullResult /\ analysisState.error # NullError)

\* the page is loading an analysis started by Try Again, after a failure
C18_Witness ==
    /\ analysisState.isLoading
    /\ Len(clicks) = 2 /\ clicks[2] = "Try Again"
    /\ analysisState.error = NullError
    /\ Outstanding # {}

\* C19: when the awaited analyzeJob call of the page settles, loading ends
\* and exactly one of result and error is set: the result when the answer
\* reports success and carries a result, the error (and no result) otherwise
C19_SettleSetsResultOrError ==
    [][\A r \in DOMAIN reqs :
          (reqs[r].from = "page" /\ Settles(r)) =>
              /\ ~analysisState'.isLoading
              /\ (analysisState'.result # NullResult) # (analysisState'.error # NullError)
              /\ IF reqs[r].resp.kind = "resolved" /\ reqs[r].resp.success
                    /\ reqs[r].resp.result # NullResult
                    THEN /\ analysisState'.result = reqs[r].resp.result
                         /\ analysisState'.error = NullError
                    ELSE /\ analysisState'.result = NullResult
                         /\ analysisState'.error # NullError]_vars

\* a first call failed and set the error, the call of Try Again succeeded and
\* set the result
C19_Witness ==
    /\ clicks = <<"Analyze Job", "Try Again">>
    /\ \A r \in 1..2 : reqs[r].from = "page" /\ reqs[r].pc = "settled"
    /\ ~analysisState.isLoading
    /\ analysisState.result # NullResult
    /\ analysisState.error = NullError

\* The description is blank after trimming or shorter than the minimum
BlankOrTooShort(d) ==
    ~Truthy(Trim(d)) \/ Length(d) < MinDescriptionLength

\* The error handleAnalyzeJob sets for a description it does not send
FirstValidationError(d) ==
    IF ~Truthy(Trim(d))
        THEN [message |-> "Please enter a job description to analyze",
              status |-> NoStatus, code |-> "EMPTY_JOB_DESCRIPTION"]
        ELSE [message |-> "Job description should be at least 50 characters long",
              status |-> NoStatus, code |-> "JOB_DESCRIPTION_TOO_SHORT"]

\* C20: a click that runs handleAnalyzeJob with a description that is blank
\* after trimming or shorter than 50 characters sends no request and only
\* sets the error, leaving isLoading and result as they are; with any other
\* description the request is sent
C20_InvalidDescriptionNotSent ==
    [][(ClickAnalyze \/ ClickTryAgain) =>
          IF BlankOrTooShort(jobDescription)
             THEN /\ reqs' = reqs
                  /\ analysisState' =
                        [analysisState EXCEPT
                            !.error = FirstValidationError(jobDescription)]
             ELSE AnalysisStarted]_vars

\* a short description was refused by Analyze Job: the error is on the page
\* and nothing was ever sent
C20_Witness ==
    /\ jobDescription = "short"
    /\ analysisState.error.code = "JOB_DESCRIPTION_TOO_SHORT"
    /\ ~analysisState.isLoading
    /\ \A r \in DOMAIN reqs : reqs[r].pc = "unused"

\* C21: on the SkillTraining page both indices stay within 0 and the length
\* of their list; a card that is on screen has an index that is a position
\* of its list; Submit raises the index by one, Previous lowers it by one and
\* is not offered at index 0
C21_IndicesWithinLists ==
    /\ [](training.page = "skill-training" =>
            /\ training.currentQuestionIndex \in 0..training.questions
            /\ training.currentExerciseIndex \in 0..training.exercises
            /\ QuestionCardShown =>
                  training.currentQuestionIndex \in 0..(training.questions - 1)
            /\ ExerciseCardShown =>
                  training.currentExerciseIndex \in 0..(training.exercises - 1))
    /\ [][/\ SubmitAnswer =>
                training'.currentQuestionIndex = training.currentQuestionIndex + 1
          /\ SubmitExercise =>
                training'.currentExerciseIndex = training.currentExerciseIndex + 1
          /\ PreviousQuestion =>
                /\ training.currentQuestionIndex > 0
                /\ training'.currentQuestionIndex = training.currentQuestionIndex - 1
          /\ PreviousExercise =>
                /\ training.currentExerciseIndex > 0
                /\ training'.currentExerciseIndex = training.currentExerciseIndex - 1]_vars

\* C22: when the last of the skill fetches under way answers (none of the
\* later clicks having failed), the SkillTraining page shown is that of the
\* skill clicked last, whatever the order in which the fetches answered
C22_LastClickedSkillShown ==
    [][\A f \in training.pending : \A nq \in 0..MaxItems : \A ne \in 0..MaxItems :
          (/\ SkillDataArrives(f, nq, ne)
           /\ training'.pending = {}
           /\ training.lastClicked # "none")
          => /\ training'.page = "skill-training"
             /\ training'.skill.name = training.lastClicked]_vars

\* The fetch f answers in this step and SkillTraining is given its data
FetchAnswered(f) ==
    /\ f \in training.pending /\ f \notin training'.pending
    /\ training'.page = "skill-training"
    /\ training'.alert = "null"

C26_NoTrainingWithoutJob ==
    [][/\ \A f \in training'.pending \ training.pending :
             /\ training.page = "job-training"
             /\ ~training.isPlaceholderMode
             /\ f.job = training.selectedJob
             /\ f.job \in DashboardJobs
       /\ (training.page = "job-training" /\ training.isPlaceholderMode) =>
             training'.pending \subseteq training.pending
       /\ (training'.page = "skill-training" /\ training.page # "skill-training") =>
             /\ \E f \in training.pending : FetchAnswered(f)
             /\ training'.selectedJob \in DashboardJobs]_vars

\* JobTraining in placeholder mode with the skill cards on screen and no
\* fetch under way or answered
C26_Witness ==
    /\ SkillsGridShown
    /\ training.isPlaceholderMode
    /\ training.selectedJob = "placeholder"
    /\ DOMAIN training.skills = SkillNames
    /\ training.pending = {}
    /\ training.lastClicked = "none"

\* C24: whenever the app stands at /analyze or /questions, where only the
\* landing page takes it, isConfigured is true and the page of the route is
\* rendered
C24_NavigationReachesRoute ==
    landing.path \in {"/analyze", "/questions"} =>
        /\ landing.isConfigured
        /\ RouteElement \in {"JobAnalyzer", "QuestionGenerator"}

\* The wizard's inputs are complete: a key that is not blank, a language, a
\* question type
WizardComplete ==
    /\ TrimmedKeyLength(landing.apiKey) > 0
    /\ landing.preferredLanguages # {}
    /\ landing.questionTypes # {}

\* C25: currentStep is 1, 2 or 3; at step 3, and so when the configuration
\* is completed, the API key is not blank and a language and a question type
\* are selected; Next advances by one and only from a valid step, Back goes
\* back by one and never below step 1
C25_WizardStepsValid ==
    /\ [](/\ landing.currentStep \in {1, 2, 3}
          /\ landing.currentStep = 3 => WizardComplete)
    /\ [][/\ landing'.currentStep > landing.currentStep =>
                /\ landing.currentStep = 1 => TrimmedKeyLength(landing.apiKey) > 0
                /\ landing.currentStep = 2 =>
                      (landing.preferredLanguages # {} /\ landing.questionTypes # {})
                /\ landing'.currentStep = landing.currentStep + 1
          /\ landing'.currentStep < landing.currentStep =>
                \/ landing'.currentStep = landing.currentStep - 1
                \/ landing'.path # landing.path
          /\ landing'.currentStep >= 1
          /\ (landing'.isConfigured /\ ~landing.isConfigured) =>
                (landing.currentStep = 3 /\ WizardComplete)]_vars

\* step 3 reached with a key and with preferences other than the defaults
C25_Witness ==
    /\ landing.path = "/"
    /\ landing.currentStep = 3
    /\ landing.apiKey = "sk-1"
    /\ landing.preferredLanguages = {"Go"}
    /\ landing.questionTypes = {"behavioral"}
====
